---- MODULE Spec2Model ----
(***************************************************************************)
(* Fee-sponsorship endpoint of octane (pages/api/sponsor-transaction.ts).  *)
(* The repository holds several drafts of the same request handler; each   *)
(* draft is one action.  A request is decoded, (in the rewriting drafts)   *)
(* the sponsor key is moved to the front of the static account-key table,  *)
(* the header and the instructions are rebuilt, and the sponsor signs.     *)
(*                                                                         *)
(* Representation.  Public keys are integers, the sponsor's is 0.  JS      *)
(* arrays are sequences; a JS index i is position i + 1.  The bytes of an  *)
(* encoded message are represented by the message they encode, so a        *)
(* signature is the pair <<signer key, signed message>> and 64 zero bytes  *)
(* are the empty tuple.                                                    *)
(***************************************************************************)
EXTENDS Integers, Sequences, FiniteSets, TLC

\* Longest static account-key table of an input message.
MaxKeys == 3
\* Most account-index references (programIdIndex and accountKeyIndexes
\* entries together) over all the instructions of an input message.
MaxRefs == 2

VARIABLES req, res, draft, sponsorSigned

vars == <<req, res, draft, sponsorSigned>>

\* ENV_SECRET_KEYPAIR.publicKey
sponsorPubkey == 0

----------------------------------------------------------------------------
(* JavaScript array helpers, on 0-based indices.                           *)

\* array[i]
At(array, i) == array[i + 1]

\* array.findIndex(key => key.equals(k)): the first index, or -1
FindIndex(array, k) ==
    IF \E i \in 1..Len(array) : array[i] = k
    THEN (CHOOSE i \in 1..Len(array) :
              /\ array[i] = k
              /\ \A j \in 1..(i - 1) : array[j] # k) - 1
    ELSE -1

\* array.unshift(k)
Unshift(array, k) == <<k>> \o array

\* array.splice(i, 1)
Splice1(array, i) == SubSeq(array, 1, i) \o SubSeq(array, i + 2, Len(array))

\* array.slice(0, n)
Slice0(array, n) ==
    SubSeq(array, 1, IF n < Len(array) THEN n ELSE Len(array))

\* array.filter(key => !key.equals(k))
FilterNot(array, k) ==
    LET keep(x) == x # k IN SelectSeq(array, keep)

\* new Uint8Array(64)
Zero64 == <<>>

\* Array(n).fill(0).map(() => new Uint8Array(64))
EmptySignatures(n) == [i \in 1..n |-> Zero64]

----------------------------------------------------------------------------
(* @solana/web3.js, as the handlers use it.                                *)

\* The detached signature of signer key k over the encoded message m.
Ed25519Sign(m, k) == <<k, m>>

\* new VersionedTransaction(message): one empty slot per required signer.
NewVersionedTransaction(m) ==
    [signatures |-> EmptySignatures(m.header.numRequiredSignatures),
     message |-> m]

\* transaction.sign([signer]) looks the signer up among the first
\* numRequiredSignatures static keys and asserts that it is there.
SignerIndex(tx, k) ==
    FindIndex(Slice0(tx.message.staticAccountKeys,
                     tx.message.header.numRequiredSignatures), k)

CanSign(tx, k) == SignerIndex(tx, k) >= 0

\* transaction.sign([signer]), given CanSign: writes the signer's slot.  The
\* slot is assigned by index, so an array shorter than the index grows.
SignTransaction(tx, k) ==
    LET i == SignerIndex(tx, k)
        n == IF Len(tx.signatures) > i + 1 THEN Len(tx.signatures) ELSE i + 1
    IN  [tx EXCEPT !.signatures =
            [j \in 1..n |->
                IF j = i + 1 THEN Ed25519Sign(tx.message, k)
                ELSE IF j <= Len(tx.signatures) THEN tx.signatures[j]
                ELSE Zero64]]

\* transaction.version: MessageV0.version is the number 0, which JavaScript
\* treats as false; a legacy message's version is the string 'legacy'.
VersionIsFalsy(tx) == tx.message.version = "0"

\* transaction.message instanceof MessageV0
IsMessageV0(tx) == tx.message.version = "0"

----------------------------------------------------------------------------
(* Requests.                                                               *)

\* The n non-sponsor keys 1..n, in table order.
UserKeys(n) == [i \in 1..n |-> i]

InsertAt(array, p, k) ==
    SubSeq(array, 1, p) \o <<k>> \o SubSeq(array, p + 1, Len(array))

\* Account-key tables of unique keys, of length 1..MaxKeys: the sponsor is
\* absent or sits at any index.  The handlers compare keys only for
\* equality, so the identity of the other keys does not matter.
KeyTables ==
    {UserKeys(n) : n \in 1..MaxKeys}
    \cup UNION {{InsertAt(UserKeys(n), p, sponsorPubkey) : p \in 0..n} :
                    n \in 0..(MaxKeys - 1)}

\* Headers that satisfy the message invariant for a table of len keys.
Headers(len) ==
    UNION {UNION {{[numRequiredSignatures |-> s,
                    numReadonlySignedAccounts |-> rs,
                    numReadonlyUnsignedAccounts |-> ru] :
                        ru \in 0..(len - s)} : rs \in 0..(s - 1)} :
                            s \in 1..len}

\* Instructions that use exactly c index references drawn from idx.
InstructionsWith(idx, c) ==
    {[programIdIndex |-> p, accountKeyIndexes |-> a, data |-> <<>>] :
        p \in idx, a \in [1..(c - 1) -> idx]}

\* Instruction lists that use at most r index references in all.
RECURSIVE InstructionLists(_, _)
InstructionLists(idx, r) ==
    {<<>>} \cup
    UNION {UNION {{<<i>> \o rest : i \in InstructionsWith(idx, c)} :
                      rest \in InstructionLists(idx, r - c)} : c \in 1..r}

\* The data bytes of the j-th instruction are <<j>>: instructions of one
\* message differ in their data.
WithData(list) == [j \in 1..Len(list) |-> [list[j] EXCEPT !.data = <<j>>]]

\* A lookup-table reference that loads one address.
LookupTableRef ==
    [accountKey |-> 100, writableIndexes |-> <<0>>, readonlyIndexes |-> <<>>]

\* Version, blockhash, lookups and whether the user has signed already.
Envelopes ==
    {[version |-> "0", recentBlockhash |-> "h1", addressTableLookups |-> <<>>,
      userSigned |-> FALSE],
     [version |-> "0", recentBlockhash |-> "h2",
      addressTableLookups |-> <<LookupTableRef>>, userSigned |-> TRUE],
     [version |-> "legacy", recentBlockhash |-> "h1",
      addressTableLookups |-> <<>>, userSigned |-> TRUE]}

\* The decoded message of a request.
Message(e, keys, h, list) ==
    [version |-> e.version,
     header |-> h,
     staticAccountKeys |-> keys,
     recentBlockhash |-> e.recentBlockhash,
     compiledInstructions |-> WithData(list),
     addressTableLookups |-> e.addressTableLookups]

\* The decoded transaction of a request: one signature slot per required
\* signer; a user that has signed fills the slots of the non-sponsor keys.
Transaction(e, keys, h, list) ==
    LET m == Message(e, keys, h, list)
    IN  [kind |-> "tx",
         signatures |->
            [i \in 1..h.numRequiredSignatures |->
                IF e.userSigned /\ keys[i] # sponsorPubkey
                THEN Ed25519Sign(m, keys[i]) ELSE Zero64],
         message |-> m]

\* req.body.transaction is absent, or is not the encoding of a transaction.
NoTransaction == [kind |-> "undefined"]
Garbage == [kind |-> "garbage"]

NoResponse == [status |-> "none"]

Init ==
    /\ res = NoResponse
    /\ draft = "none"
    /\ sponsorSigned = {}
    /\ \/ req \in {[method |-> "GET", transaction |-> NoTransaction],
                   [method |-> "POST", transaction |-> NoTransaction],
                   [method |-> "POST", transaction |-> Garbage]}
       \/ \E e \in Envelopes, keys \in KeyTables :
            \E h \in Headers(Len(keys)),
               list \in InstructionLists(0..Len(keys), MaxRefs) :
                req = [method |-> "POST",
                       transaction |-> Transaction(e, keys, h, list)]

----------------------------------------------------------------------------
(* Responses.                                                              *)

\* res.status(code).json({ status: 'error', message })
ErrorResponse(code, message) ==
    [status |-> "error", code |-> code, message |-> message]

\* res.status(200).json({ status: 'ok', transaction, sponsorSignature })
OkResponse(tx, sponsorSignature) ==
    [status |-> "ok", code |-> 200,
     transaction |-> [signatures |-> tx.signatures, message |-> tx.message],
     sponsorSignature |-> sponsorSignature]

\* What a handler leaves behind: the response and the messages the sponsor
\* key has signed.
Outcome(response, signed) == [res |-> response, signed |-> signed]

\* The checks every draft starts with: the method, the body, and the decoding
\* of the body (which throws into the catch block).
Refused(r) ==
    \/ r.method # "POST"
    \/ r.transaction.kind # "tx"

Refusal(r) ==
    IF r.method # "POST" THEN ErrorResponse(405, "Method not allowed")
    ELSE IF r.transaction.kind = "undefined"
         THEN ErrorResponse(400, "Missing transaction")
    ELSE ErrorResponse(400, "deserialize failed")

----------------------------------------------------------------------------
(* The latest draft: rewrite the table, the header and the instructions.   *)

\* sponsorKeyIndex
sponsorKeyIndex(message) == FindIndex(message.staticAccountKeys, sponsorPubkey)

\* newStaticAccountKeys without the splice: a sponsor found at a later index
\* is put in front and left where it was.
newStaticAccountKeys_noSplice(message) ==
    IF sponsorKeyIndex(message) = 0 THEN message.staticAccountKeys
    ELSE Unshift(message.staticAccountKeys, sponsorPubkey)

\* newStaticAccountKeys
newStaticAccountKeys(message) ==
    LET i == sponsorKeyIndex(message)
    IN  IF i = -1 THEN Unshift(message.staticAccountKeys, sponsorPubkey)
        ELSE IF i # 0
             THEN Unshift(Splice1(message.staticAccountKeys, i), sponsorPubkey)
        ELSE message.staticAccountKeys

\* Math.max(2, n)
Max2(n) == IF n > 2 THEN n ELSE 2

\* newHeader
newHeader(message) ==
    [numRequiredSignatures |-> Max2(message.header.numRequiredSignatures),
     numReadonlySignedAccounts |-> message.header.numReadonlySignedAccounts,
     numReadonlyUnsignedAccounts |-> message.header.numReadonlyUnsignedAccounts]

\* accountIndexMapping: one { oldIndex, newIndex } per key of the old table
accountIndexMapping(message) ==
    [i \in 1..Len(message.staticAccountKeys) |->
        [oldIndex |-> i - 1,
         newIndex |-> FindIndex(newStaticAccountKeys(message),
                                message.staticAccountKeys[i])]]

\* newAccountIndexes: an index the mapping does not hold is kept as it is
newAccountIndexes(message, instruction) ==
    LET mapping == accountIndexMapping(message)
        remap(oldIndex) ==
            IF \E j \in 1..Len(mapping) : mapping[j].oldIndex = oldIndex
            THEN (CHOOSE e \in {mapping[j] : j \in 1..Len(mapping)} :
                      e.oldIndex = oldIndex).newIndex
            ELSE oldIndex
    IN  [j \in 1..Len(instruction.accountKeyIndexes) |->
            remap(instruction.accountKeyIndexes[j])]

\* updatedInstructions that drops the references the mapping does not hold
\* instead of keeping them.
updatedInstructions_dropUnmapped(message) ==
    [j \in 1..Len(message.compiledInstructions) |->
        [message.compiledInstructions[j] EXCEPT
            !.accountKeyIndexes =
                LET mapped(i) == i < Len(message.staticAccountKeys)
                IN  SelectSeq(newAccountIndexes(message,
                                  message.compiledInstructions[j]), mapped)]]

\* updatedInstructions: { ...instruction, accountKeyIndexes: newAccountIndexes }
updatedInstructions(message) ==
    [j \in 1..Len(message.compiledInstructions) |->
        [message.compiledInstructions[j] EXCEPT
            !.accountKeyIndexes =
                newAccountIndexes(message, message.compiledInstructions[j])]]

\* newMessage
newMessage(message) ==
    [version |-> "0",
     header |-> newHeader(message),
     staticAccountKeys |-> newStaticAccountKeys(message),
     recentBlockhash |-> message.recentBlockhash,
     compiledInstructions |-> updatedInstructions(message),
     addressTableLookups |-> message.addressTableLookups]

\* newTransaction whose signature slots are counted by the old header.
newTransaction_oldCount(message) ==
    [NewVersionedTransaction(newMessage(message)) EXCEPT
        !.signatures = EmptySignatures(message.header.numRequiredSignatures)]

\* newTransaction, with its signatures array replaced by empty slots
newTransaction(message) ==
    [NewVersionedTransaction(newMessage(message)) EXCEPT
        !.signatures = EmptySignatures(newHeader(message).numRequiredSignatures)]

\* The handler of the latest draft.
handler_part002(r) ==
    IF Refused(r) THEN Outcome(Refusal(r), {})
    ELSE IF ~IsMessageV0(r.transaction)
         THEN Outcome(ErrorResponse(400,
                  "Only versioned transactions are supported"), {})
    ELSE LET tx == newTransaction(r.transaction.message)
         IN  IF ~CanSign(tx, sponsorPubkey)
             THEN Outcome(ErrorResponse(400, "Cannot sign with non signer key"),
                          {})
             ELSE LET signed == SignTransaction(tx, sponsorPubkey)
                  IN  Outcome(OkResponse(signed, At(signed.signatures, 0)),
                              {tx.message})

----------------------------------------------------------------------------
(* sponsor-transaction.ts, first draft of the file: the sponsor is put in  *)
(* front, the header asks for two signatures, the instructions are passed  *)
(* through.                                                                *)

\* newHeader
newHeaderA(message) ==
    [numRequiredSignatures |-> 2,
     numReadonlySignedAccounts |-> message.header.numReadonlySignedAccounts,
     numReadonlyUnsignedAccounts |-> message.header.numReadonlyUnsignedAccounts]

\* staticAccountKeys: [sponsorPubkey, ...staticAccountKeys.filter(...)]
staticAccountKeysA(message) ==
    Unshift(FilterNot(message.staticAccountKeys, sponsorPubkey), sponsorPubkey)

\* newMessage
newMessageA(message) ==
    [version |-> "0",
     header |-> newHeaderA(message),
     staticAccountKeys |-> staticAccountKeysA(message),
     recentBlockhash |-> message.recentBlockhash,
     compiledInstructions |-> message.compiledInstructions,
     addressTableLookups |-> message.addressTableLookups]

\* newTransaction, with its signatures array replaced by empty slots
newTransactionA(message) ==
    [NewVersionedTransaction(newMessageA(message)) EXCEPT
        !.signatures = EmptySignatures(newHeaderA(message).numRequiredSignatures)]

handler_A(r) ==
    IF Refused(r) THEN Outcome(Refusal(r), {})
    ELSE IF IsMessageV0(r.transaction)
         THEN LET tx == newTransactionA(r.transaction.message)
              IN  IF ~CanSign(tx, sponsorPubkey)
                  THEN Outcome(ErrorResponse(400,
                           "Cannot sign with non signer key"), {})
                  ELSE LET signed == SignTransaction(tx, sponsorPubkey)
                       IN  Outcome(OkResponse(signed, At(signed.signatures, 0)),
                                   {tx.message})
    ELSE Outcome(ErrorResponse(400,
             "Only versioned transactions are supported"), {})

----------------------------------------------------------------------------
(* The drafts that sign the transaction as it came.                        *)

\* Both branches of the second draft of the file: find the sponsor in the
\* table, sign, return the sponsor's slot.
signInPlace(tx) ==
    LET sponsorIndex == FindIndex(tx.message.staticAccountKeys, sponsorPubkey)
    IN  IF sponsorIndex = -1
        THEN Outcome(ErrorResponse(400,
                 "Sponsor not found in transaction signers"), {})
        ELSE IF ~CanSign(tx, sponsorPubkey)
             THEN Outcome(ErrorResponse(400,
                      "Cannot sign with non signer key"), {})
        ELSE LET signed == SignTransaction(tx, sponsorPubkey)
             IN  Outcome(OkResponse(signed, At(signed.signatures, sponsorIndex)),
                         {tx.message})

\* sponsor-transaction.ts, second draft of the file: a MessageV0 and a
\* legacy message are both signed in place.
handler_B(r) ==
    IF Refused(r) THEN Outcome(Refusal(r), {})
    ELSE IF IsMessageV0(r.transaction) THEN signInPlace(r.transaction)
    ELSE signInPlace(r.transaction)

\* The draft that signs first and looks the sponsor up afterwards.
handler_part001(r) ==
    IF Refused(r) THEN Outcome(Refusal(r), {})
    ELSE IF VersionIsFalsy(r.transaction)
         THEN Outcome(ErrorResponse(400, "Invalid transaction version"), {})
    ELSE IF ~CanSign(r.transaction, sponsorPubkey)
         THEN Outcome(ErrorResponse(400, "Cannot sign with non signer key"), {})
    ELSE LET signed == SignTransaction(r.transaction, sponsorPubkey)
             sponsorIndex ==
                 FindIndex(signed.message.staticAccountKeys, sponsorPubkey)
         IN  Outcome(OkResponse(signed, At(signed.signatures, sponsorIndex)),
                     {r.transaction.message})

\* The earliest draft passes the raw secret-key bytes to sign(), which reads
\* signer.publicKey of them: the call throws for every transaction.
handler_part000(r) ==
    IF Refused(r) THEN Outcome(Refusal(r), {})
    ELSE IF VersionIsFalsy(r.transaction)
         THEN Outcome(ErrorResponse(400, "Invalid transaction version"), {})
    ELSE Outcome(ErrorResponse(400, "TypeError"), {})

----------------------------------------------------------------------------
(* One action per draft: a request is answered once.                       *)

Handle_part000 ==
    /\ draft = "none"
    /\ draft' = "part_000"
    /\ res' = handler_part000(req).res
    /\ sponsorSigned' = handler_part000(req).signed
    /\ UNCHANGED req

Handle_part001 ==
    /\ draft = "none"
    /\ draft' = "part_001"
    /\ res' = handler_part001(req).res
    /\ sponsorSigned' = handler_part001(req).signed
    /\ UNCHANGED req

Handle_B ==
    /\ draft = "none"
    /\ draft' = "B"
    /\ res' = handler_B(req).res
    /\ sponsorSigned' = handler_B(req).signed
    /\ UNCHANGED req

Handle_A ==
    /\ draft = "none"
    /\ draft' = "A"
    /\ res' = handler_A(req).res
    /\ sponsorSigned' = handler_A(req).signed
    /\ UNCHANGED req

Handle_part002 ==
    /\ draft = "none"
    /\ draft' = "part_002"
    /\ res' = handler_part002(req).res
    /\ sponsorSigned' = handler_part002(req).signed
    /\ UNCHANGED req

Next ==
    \/ Handle_part000
    \/ Handle_part001
    \/ Handle_B
    \/ Handle_A
    \/ Handle_part002

Spec == Init /\ [][Next]_vars

----------------------------------------------------------------------------
(* The claims.  Each is about the state a handler leaves: req is the       *)
(* request, res the response, draft the draft that answered.               *)

\* The two drafts that rewrite the message.
Rewriters == {"A", "part_002"}

\* A rewriting draft has answered with a rewritten transaction.
Rewrote == draft \in Rewriters /\ res.status = "ok"

In == req.transaction.message

Out == res.transaction.message

Range(array) == {array[i] : i \in 1..Len(array)}

\* The key an index resolves to; -1 when the index is outside the table.
Resolve(m, i) ==
    IF i >= 0 /\ i < Len(m.staticAccountKeys)
    THEN At(m.staticAccountKeys, i) ELSE -1

\* The index of a key in a table of unique keys.
IndexOf(m, k) == CHOOSE i \in 0..(Len(m.staticAccountKeys) - 1) : Resolve(m, i) = k

\* Every index of every instruction is inside the static table.
RefsInTable(m) ==
    \A j \in 1..Len(m.compiledInstructions) :
        LET ix == m.compiledInstructions[j]
        IN  /\ ix.programIdIndex < Len(m.staticAccountKeys)
            /\ \A a \in 1..Len(ix.accountKeyIndexes) :
                   ix.accountKeyIndexes[a] < Len(m.staticAccountKeys)

\* The number of addresses the lookups add behind the static table.
RECURSIVE LoadedAddresses(_)
LoadedAddresses(lookups) ==
    IF lookups = <<>> THEN 0
    ELSE Len(Head(lookups).writableIndexes) + Len(Head(lookups).readonlyIndexes)
         + LoadedAddresses(Tail(lookups))

\* Some instruction holds an index behind the table and behind the addresses
\* the lookups add to it.
HasDanglingIndex(m) ==
    LET space == Len(m.staticAccountKeys) + LoadedAddresses(m.addressTableLookups)
    IN  \E j \in 1..Len(m.compiledInstructions) :
            LET ix == m.compiledInstructions[j]
            IN  \/ ix.programIdIndex >= space
                \/ \E a \in 1..Len(ix.accountKeyIndexes) :
                       ix.accountKeyIndexes[a] >= space

SponsorInTable(m) == sponsorPubkey \in Range(m.staticAccountKeys)

\* Index i of m is a required signer; is read-only (the last
\* numReadonlySignedAccounts signers and the last numReadonlyUnsignedAccounts
\* of the others).
IsSigner(m, i) == i < m.header.numRequiredSignatures

IsReadonly(m, i) ==
    IF IsSigner(m, i)
    THEN i >= m.header.numRequiredSignatures - m.header.numReadonlySignedAccounts
    ELSE i >= Len(m.staticAccountKeys) - m.header.numReadonlyUnsignedAccounts

SponsorWasSigner(m) ==
    SponsorInTable(m) /\ IsSigner(m, IndexOf(m, sponsorPubkey))

\* C1: for a valid input, every programIdIndex and every accountIndexes entry
\* of the output resolves to the key the corresponding input index resolved to.
C1_TargetsPreserved ==
    (Rewrote /\ RefsInTable(In)) =>
        /\ Len(Out.compiledInstructions) = Len(In.compiledInstructions)
        /\ \A j \in 1..Len(In.compiledInstructions) :
            LET old == In.compiledInstructions[j]
                new == Out.compiledInstructions[j]
            IN  /\ Resolve(Out, new.programIdIndex)
                       = Resolve(In, old.programIdIndex)
                /\ Len(new.accountKeyIndexes) = Len(old.accountKeyIndexes)
                /\ \A a \in 1..Len(old.accountKeyIndexes) :
                       Resolve(Out, new.accountKeyIndexes[a])
                           = Resolve(In, old.accountKeyIndexes[a])

\* C2: the output table has the sponsor at index 0 and nowhere else, holds
\* every other input key exactly once and no further key, keeps the other keys
\* in their input order, and is one longer than the input exactly when the
\* sponsor was absent.
C2_SponsorFirstOrderKept ==
    Rewrote =>
        LET old == In.staticAccountKeys
            new == Out.staticAccountKeys
        IN  /\ Len(new) >= 1
            /\ new[1] = sponsorPubkey
            /\ \A i \in 2..Len(new) : new[i] # sponsorPubkey
            /\ Range(new) = Range(old) \cup {sponsorPubkey}
            /\ \A i, j \in 1..Len(new) : new[i] = new[j] => i = j
            /\ \A i, j \in 1..Len(old) :
                   (i < j /\ old[i] # sponsorPubkey /\ old[j] # sponsorPubkey)
                       => IndexOf(Out, old[i]) < IndexOf(Out, old[j])
            /\ Len(new) = Len(old) + (IF SponsorInTable(In) THEN 0 ELSE 1)

\* The latest draft has moved a sponsor from index 2, behind two other keys,
\* to the front.
C2_Witness ==
    /\ Rewrote
    /\ draft = "part_002"
    /\ In.staticAccountKeys = <<1, 2, sponsorPubkey>>
    /\ Out.staticAccountKeys = <<sponsorPubkey, 1, 2>>

\* C3: the output asks for one signature more than the input unless the
\* sponsor already was a required signer of the input.
C3_OneMoreSignerUnlessSigner ==
    Rewrote =>
        Out.header.numRequiredSignatures =
            In.header.numRequiredSignatures
                + (IF SponsorWasSigner(In) THEN 0 ELSE 1)

\* C4: the output header fits the output table, and the sponsor at index 0 is
\* a writable signer.
C4_OutputHeaderWellFormed ==
    Rewrote =>
        LET h == Out.header
            n == Len(Out.staticAccountKeys)
        IN  /\ 1 <= h.numRequiredSignatures
            /\ h.numRequiredSignatures <= n
            /\ h.numReadonlySignedAccounts < h.numRequiredSignatures
            /\ h.numReadonlyUnsignedAccounts <= n - h.numRequiredSignatures
            /\ Resolve(Out, 0) = sponsorPubkey
            /\ IsSigner(Out, 0)
            /\ ~IsReadonly(Out, 0)

\* C5: a message whose first key is the sponsor comes back as it was.
C5_SponsorFirstIsNoOp ==
    (Rewrote /\ Resolve(In, 0) = sponsorPubkey) => Out = In

\* C6: a request whose instructions hold a dangling index is answered with an
\* error by the rewriting drafts, and the sponsor signs nothing.
C6_DanglingIndexAborts ==
    (draft \in Rewriters /\ req.transaction.kind = "tx" /\ HasDanglingIndex(In))
        => (res.status = "error" /\ sponsorSigned = {})

\* C7: a legacy message is answered with an error and never signed, and no
\* MessageV0 is turned away by the version check.
C7_OnlyV0Signed ==
    (draft # "none" /\ req.method = "POST" /\ req.transaction.kind = "tx") =>
        /\ In.version = "legacy" =>
               (res.status = "error" /\ sponsorSigned = {})
        /\ (In.version = "0" /\ res.status = "error") =>
               res.message \notin {"Invalid transaction version",
                                   "Only versioned transactions are supported"}

\* C8: the rewritten transaction has one signature slot per required signer
\* of its message; slot 0 is the sponsor's signature over the rewritten
\* message, every other slot is empty, and the signature returned beside the
\* transaction is the one in slot 0.
C8_OnlySponsorSlotSigned ==
    Rewrote =>
        LET sigs == res.transaction.signatures
        IN  /\ Len(sigs) = Out.header.numRequiredSignatures
            /\ Len(sigs) >= 1
            /\ sigs[1] = <<sponsorPubkey, Out>>
            /\ \A i \in 2..Len(sigs) : sigs[i] = <<>>
            /\ res.sponsorSignature = sigs[1]
            /\ sponsorSigned = {Out}

\* The latest draft has rewritten a transaction that a user had signed: the
\* input's slot 0 held the user's signature.
C8_Witness ==
    /\ Rewrote
    /\ draft = "part_002"
    /\ req.transaction.signatures[1] = <<1, In>>
    /\ In.header.numRequiredSignatures = 1
    /\ Len(res.transaction.signatures) = 2

\* C9: every key but the sponsor is a required signer of the output exactly
\* when it was one of the input, and read-only in the output exactly when it
\* was read-only in the input.
C9_RolesPreserved ==
    Rewrote =>
        \A k \in Range(In.staticAccountKeys) \ {sponsorPubkey} :
            /\ k \in Range(Out.staticAccountKeys)
            /\ IsSigner(Out, IndexOf(Out, k)) <=> IsSigner(In, IndexOf(In, k))
            /\ IsReadonly(Out, IndexOf(Out, k)) <=> IsReadonly(In, IndexOf(In, k))

\* C10: the blockhash, the lookups and the two read-only counts of the output
\* are the input's, and the output has the input's instructions in order,
\* each with its data and its number of account references.
C10_FrameUnchanged ==
    Rewrote =>
        /\ Out.recentBlockhash = In.recentBlockhash
        /\ Out.addressTableLookups = In.addressTableLookups
        /\ Out.header.numReadonlySignedAccounts
               = In.header.numReadonlySignedAccounts
        /\ Out.header.numReadonlyUnsignedAccounts
               = In.header.numReadonlyUnsignedAccounts
        /\ Len(Out.compiledInstructions) = Len(In.compiledInstructions)
        /\ \A j \in 1..Len(In.compiledInstructions) :
               /\ Out.compiledInstructions[j].data
                      = In.compiledInstructions[j].data
               /\ Len(Out.compiledInstructions[j].accountKeyIndexes)
                      = Len(In.compiledInstructions[j].accountKeyIndexes)

\* The latest draft has rewritten a message with lookups and two
\* instructions, the sponsor being absent from its table.
C10_Witness ==
    /\ Rewrote
    /\ draft = "part_002"
    /\ ~SponsorInTable(In)
    /\ In.addressTableLookups # <<>>
    /\ Len(In.compiledInstructions) = 2
    /\ Out.compiledInstructions[2].data = <<2>>

====
